---- MODULE Spec2Model ----
(***************************************************************************)
(* RPC correlation and message multiplexing of                             *)
(* src/vs/workbench/services/extensions/node/ipcRemoteCom.ts:              *)
(* RPCManager, RPCMultiplexer and MessageFactory.                          *)
(*                                                                         *)
(* A message in a queue or on the transport is kept as the receiver will   *)
(* decode its text: a function from the field names of the JSON object to  *)
(* JavaScript values, or the error that decoding the text raises.  Every   *)
(* JavaScript value is a tagged record, so that null, undefined, numbers   *)
(* and strings stay distinct.                                              *)
(*                                                                         *)
(* A text is read character by character, as JSON.parse reads it.  Its     *)
(* characters are those a string of this notation holds: U+0001 to U+007F  *)
(* without the grave accent.  A number is kept by its decimal digits, and  *)
(* stands for the double with the same digits: this covers the integers    *)
(* up to 2^53 and the numbers of at most 15 significant digits from        *)
(* 10^-307 on, Infinity and 0 beyond the range of doubles.  An escape      *)
(* \uXXXX for another character, and a number outside these, have no       *)
(* value here.                                                             *)
(***************************************************************************)
EXTENDS Integers, Sequences, FiniteSets, TLC

\* ------------------------------------------------------------------ bounds
MaxCalls == 2       \* callOnRemote invocations per manager
MaxArrive == 2      \* inbound messages handed to one manager in total
MaxBatch == 2       \* messages in one inbound batch

Mgr == {1, 2}       \* the two ends of the channel

\* ------------------------------------------------------- JavaScript values
Undef == [t |-> "undefined"]
Null == [t |-> "null"]
Str(s) == [t |-> "string", s |-> s]
\* an integer of at most nine digits
Num(n) == [t |-> "number", n |-> n]
\* any other finite number: 0.digits * 10^point, negated when neg, the
\* digits starting and ending with a digit that is not 0
Dec(neg, digits, point) == [t |-> "number", neg |-> neg, digits |-> digits, point |-> point]
\* Infinity, -Infinity when neg
Inf(neg) == [t |-> "number", neg |-> neg, inf |-> TRUE]
Bool(b) == [t |-> "boolean", b |-> b]
Arr(items) == [t |-> "array", items |-> items]
\* a plain object: the names of its own enumerable properties, in the
\* order the language lists them, and their values
Obj(keys, fields) == [t |-> "object", keys |-> keys, fields |-> fields]
\* the wire form of an Error: {$isError: true, name, message, stack}, of
\* which the marker and the name are kept
WireError(name) ==
    Obj(<<"$isError", "name">>, ("$isError" :> Bool(TRUE)) @@ ("name" :> name))
\* an Error instance with the name assigned to it, as lines 56-57 build it:
\* the name is an enumerable property of its own
ErrorObj(n) == [t |-> "Error", name |-> Str(n)]

Empty == [k \in {} |-> 0]

\* JavaScript truthiness, as `if (x)` decides it
Truthy(v) ==
    CASE v.t = "undefined" -> FALSE
      [] v.t = "null" -> FALSE
      [] v.t = "string" -> v.s # ""
      [] v.t = "number" -> "n" \notin DOMAIN v \/ v.n # 0
      [] v.t = "boolean" -> v.b
      [] OTHER -> TRUE

Digit == <<"0", "1", "2", "3", "4", "5", "6", "7", "8", "9">>

\* String(n) for an integer: its decimal digits, after the sign
RECURSIVE String(_)
String(n) ==
    IF n < 0 THEN "-" \o String(-n)
    ELSE IF n < 10 THEN Digit[n + 1]
    ELSE String(n \div 10) \o Digit[(n % 10) + 1]

RECURSIVE Zeros(_)
Zeros(k) == IF k <= 0 THEN "" ELSE "0" \o Zeros(k - 1)

\* the text of 0.digits * 10^point: plain digits up to 21 integer digits
\* and down to six zeros after the point, exponent notation beyond
Decimal(digits, point) ==
    IF Len(digits) <= point /\ point <= 21 THEN digits \o Zeros(point - Len(digits))
    ELSE IF 0 < point /\ point <= 21
    THEN SubSeq(digits, 1, point) \o "." \o SubSeq(digits, point + 1, Len(digits))
    ELSE IF -6 < point /\ point <= 0 THEN "0." \o Zeros(-point) \o digits
    ELSE SubSeq(digits, 1, 1)
         \o (IF Len(digits) > 1 THEN "." \o SubSeq(digits, 2, Len(digits)) ELSE "")
         \o (IF point < 1 THEN "e-" \o String(1 - point) ELSE "e+" \o String(point - 1))

\* the text a number becomes as a string
NumberText(v) ==
    IF "n" \in DOMAIN v THEN String(v.n)
    ELSE (IF v.neg THEN "-" ELSE "")
         \o (IF "inf" \in DOMAIN v THEN "Infinity" ELSE Decimal(v.digits, v.point))

\* Whether a value has a text as a property key or inside a template
\* string: a plain object with a member of its own named toString has
\* none, nor has an array that holds such an object, and the conversion
\* throws a TypeError
RECURSIVE Keyable(_)
Keyable(v) ==
    CASE v.t = "object" -> "toString" \notin DOMAIN v.fields
      [] v.t = "array" -> \A i \in 1..Len(v.items) : Keyable(v.items[i])
      [] v.t = "Error" -> Keyable(v.name)
      [] OTHER -> TRUE

\* what the conversion of a value without a text throws
TypeError == [t |-> "TypeError"]

\* The text of a value that has one: an array is its elements joined by
\* commas, null and undefined elements giving nothing
RECURSIVE TextOf(_)
RECURSIVE Join(_, _)
Join(items, i) ==
    IF i > Len(items) THEN ""
    ELSE (IF i > 1 THEN "," ELSE "")
         \o (IF items[i].t \in {"undefined", "null"} THEN "" ELSE TextOf(items[i]))
         \o Join(items, i + 1)
TextOf(v) ==
    CASE v.t = "undefined" -> "undefined"
      [] v.t = "null" -> "null"
      [] v.t = "string" -> v.s
      [] v.t = "number" -> NumberText(v)
      [] v.t = "boolean" -> IF v.b THEN "true" ELSE "false"
      [] v.t = "array" -> Join(v.items, 1)
      [] v.t = "Error" -> IF v.name.t = "undefined" THEN "Error" ELSE TextOf(v.name)
      [] OTHER -> "[object Object]"

\* A value as a property key or inside a template string: its text, or
\* the TypeError thrown
ToKey(v) == IF Keyable(v) THEN TextOf(v) ELSE TypeError

\* msg.f : the value of a field of a parsed message, undefined when absent
Get(msg, f) == IF f \in DOMAIN msg THEN msg[f] ELSE Undef

\* errors.transformErrorForSerialization: an Error instance becomes its
\* marked wire form, anything else passes through
TransformErrorForSerialization(err) ==
    IF err.t = "Error" THEN WireError(err.name) ELSE err

\* ------------------------------------------------------------- wire texts
\* the character at position i of a text, "" past its end
Ch(t, i) == IF i >= 1 /\ i <= Len(t) THEN SubSeq(t, i, i) ELSE ""

Whitespace == {" ", "\t", "\n", "\r"}

\* the characters U+0001 to U+001F, in order
C0 == <<"", "", "", "", "", "", "", "",
       "\t", "\n", "", "\f", "\r", "", "", "",
       "", "", "", "", "", "", "", "",
       "", "", "", "", "", "", "">>
\* the characters U+0020 to U+005F, in order
Upper == " !\"#$%&'()*+,-./0123456789:;<=>?@ABCDEFGHIJKLMNOPQRSTUVWXYZ[\\]^_"
\* the characters U+0061 to U+007E, in order
Lower == "abcdefghijklmnopqrstuvwxyz{|}~"
\* the control characters, which a JSON string holds only escaped
Control == {C0[k] : k \in 1..Len(C0)}

\* String.fromCharCode(n), for the characters a text of this model holds
FromCharCode(n) ==
    CASE n \in 1..31 -> C0[n]
      [] n \in 32..95 -> Ch(Upper, n - 31)
      [] n \in 97..126 -> Ch(Lower, n - 96)
      [] n = 127 -> ""

HexDigit == <<"0", "1", "2", "3", "4", "5", "6", "7", "8", "9",
              "a", "b", "c", "d", "e", "f">>
UpperHex == <<"0", "1", "2", "3", "4", "5", "6", "7", "8", "9",
              "A", "B", "C", "D", "E", "F">>

IsHex(c) == \E d \in 1..16 : c \in {HexDigit[d], UpperHex[d]}
HexOf(c) == CHOOSE d \in 0..15 : c \in {HexDigit[d + 1], UpperHex[d + 1]}

\* JSON.stringify of one character of a string: a control character
\* without a short escape is written \u00xx
Escape(c) ==
    CASE c = "\"" -> "\\\""
      [] c = "\\" -> "\\\\"
      [] c = C0[8] -> "\\b"
      [] c = "\t" -> "\\t"
      [] c = "\n" -> "\\n"
      [] c = "\f" -> "\\f"
      [] c = "\r" -> "\\r"
      [] c \in Control \ {C0[8], "\t", "\n", "\f", "\r"} ->
            LET n == CHOOSE k \in 1..Len(C0) : C0[k] = c
            IN "\\u00" \o HexDigit[(n \div 16) + 1] \o HexDigit[(n % 16) + 1]
      [] OTHER -> c

RECURSIVE Escaped(_, _)
Escaped(s, i) == IF i > Len(s) THEN "" ELSE Escape(Ch(s, i)) \o Escaped(s, i + 1)

\* JSON.stringify of a string: quoted, with its characters escaped
Quote(s) == "\"" \o Escaped(s, 1) \o "\""

\* the names of the properties of an object that are not undefined
Defined(v) == SelectSeq(v.keys, LAMBDA k : v.fields[k].t # "undefined")

\* JSON.stringify of a value that has a JSON text: an undefined array
\* element is written as null, an undefined property is left out, an Error
\* instance is written as the object of its name, Infinity is null
RECURSIVE Json(_)
RECURSIVE JsonItems(_, _)
RECURSIVE JsonMembers(_, _, _)
JsonItems(items, i) ==
    IF i > Len(items) THEN ""
    ELSE (IF i > 1 THEN "," ELSE "")
         \o (IF items[i].t = "undefined" THEN "null" ELSE Json(items[i]))
         \o JsonItems(items, i + 1)
JsonMembers(fields, keys, i) ==
    IF i > Len(keys) THEN ""
    ELSE (IF i > 1 THEN "," ELSE "")
         \o Quote(keys[i]) \o ":" \o Json(fields[keys[i]])
         \o JsonMembers(fields, keys, i + 1)
Json(v) ==
    CASE v.t = "null" -> "null"
      [] v.t = "string" -> Quote(v.s)
      [] v.t = "number" -> IF "inf" \in DOMAIN v THEN "null" ELSE NumberText(v)
      [] v.t = "boolean" -> IF v.b THEN "true" ELSE "false"
      [] v.t = "array" -> "[" \o JsonItems(v.items, 1) \o "]"
      [] v.t = "object" ->
            "{" \o JsonMembers(v.fields, Defined(v), 1) \o "}"
      [] v.t = "Error" -> Json(Obj(<<"name">>, "name" :> v.name))

\* `${marshalling.stringify(v)}`: the text written into the template, the
\* word undefined when stringify gives no text
Stringify(v) == IF v.t = "undefined" THEN "undefined" ELSE Json(v)

\* what JSON.parse throws for a text that is not JSON
SyntaxError == [t |-> "SyntaxError"]

\* the outcome of reading one JSON construct: the value and the position
\* after it, or the failure
Bad(i) == [ok |-> FALSE, val |-> SyntaxError, pos |-> i]
Good(v, i) == [ok |-> TRUE, val |-> v, pos |-> i]

RECURSIVE SkipWs(_, _)
SkipWs(t, i) == IF Ch(t, i) \in Whitespace THEN SkipWs(t, i + 1) ELSE i

\* the character an escape sequence \e stands for, "" when there is none
Unescape(e) ==
    CASE e = "\"" -> "\""
      [] e = "\\" -> "\\"
      [] e = "/" -> "/"
      [] e = "b" -> C0[8]
      [] e = "t" -> "\t"
      [] e = "n" -> "\n"
      [] e = "f" -> "\f"
      [] e = "r" -> "\r"
      [] OTHER -> ""

RECURSIVE ParseString(_, _, _)
\* after \u at position i + 1: the four hexadecimal digits of a code unit
ReadUnicode(t, i, acc) ==
    IF \E k \in 2..5 : ~IsHex(Ch(t, i + k)) THEN Bad(i)
    ELSE ParseString(t, i + 6,
                     acc \o FromCharCode(4096 * HexOf(Ch(t, i + 2)) + 256 * HexOf(Ch(t, i + 3))
                                            + 16 * HexOf(Ch(t, i + 4)) + HexOf(Ch(t, i + 5))))

\* after the backslash at position i, the escape character e
ReadEscape(t, i, acc, e) ==
    IF e = "u" THEN ReadUnicode(t, i, acc)
    ELSE IF Unescape(e) = "" THEN Bad(i)
    ELSE ParseString(t, i + 2, acc \o Unescape(e))

\* the character c at position i of a string literal
ReadChar(t, i, acc, c) ==
    IF c = "" \/ c \in Control THEN Bad(i)
    ELSE IF c = "\"" THEN Good(Str(acc), i + 1)
    ELSE IF c = "\\" THEN ReadEscape(t, i, acc, Ch(t, i + 1))
    ELSE ParseString(t, i + 1, acc \o c)

\* the rest of a string literal, from position i, after its opening quote
ParseString(t, i, acc) == ReadChar(t, i, acc, Ch(t, i))

IsDigit(c) == \E d \in 1..10 : Digit[d] = c
DigitOf(c) == CHOOSE d \in 0..9 : Digit[d + 1] = c

\* the position after the digits that start at position i
RECURSIVE DigitsEnd(_, _)
DigitsEnd(t, i) == IF IsDigit(Ch(t, i)) THEN DigitsEnd(t, i + 1) ELSE i

\* the number of zeros a digit string starts with, and ends with
RECURSIVE LeadingZeros(_, _)
LeadingZeros(d, i) == IF Ch(d, i) = "0" THEN 1 + LeadingZeros(d, i + 1) ELSE 0
RECURSIVE TrailingZeros(_, _)
TrailingZeros(d, i) == IF Ch(d, i) = "0" THEN 1 + TrailingZeros(d, i - 1) ELSE 0

\* the integer a digit string denotes
RECURSIVE IntOf(_, _, _)
IntOf(d, i, acc) == IF i > Len(d) THEN acc ELSE IntOf(d, i + 1, 10 * acc + DigitOf(Ch(d, i)))

\* 0.a < 0.b for the digit strings a and b, compared from position i
RECURSIVE Below(_, _, _)
Below(a, b, i) ==
    IF i > Len(b) THEN FALSE
    ELSE IF i > Len(a) THEN TRUE
    ELSE IF Ch(a, i) = Ch(b, i) THEN Below(a, b, i + 1)
    ELSE DigitOf(Ch(a, i)) < DigitOf(Ch(b, i))

\* 2^1024 - 2^970, half way from the largest double to 2^1024: from these
\* digits on, with 309 digits before the point, a number is read as Infinity
Overflow ==
    "179769313486231580793728971405303415079934132710037826936173778980444968292764750946649017977587207096330286416692887910946555547851940402630657488671505820681908902000708383676273854845817711531764475730270069855571366959622842914819860834936475292719074168444365510704342711559699508093042880177904174497792"

\* the digits of the largest double, 2^1024 - 2^971, as the language
\* writes them
Largest == "17976931348623157"

\* 2^1024 - 3 * 2^970, half way from the double before the largest to the
\* largest: above these digits and below those of Overflow, with 309
\* digits before the point, a number is read as the largest double
LargestFrom ==
    "179769313486231560835325876058105298516207002341652166261661174625869553267292326574530099287946549246750631490335877017522087105926987962906277604735569213290190919152394180476217125334960946356387261286640198029037799514183602981511756283727771403830521483963923935633133642802139091669457927874464075218944"

\* 2^53: the integers up to it are doubles
MaxSafe == "9007199254740992"

\* the largest array index, 2^32 - 2
MaxIndex == "4294967294"

\* The double for the non-zero number 0.digits * 10^point, the digits
\* starting and ending with a digit that is not 0.  From half way between
\* the largest double and 2^1024 on it is Infinity, nearer to the largest
\* double than to the one before it is the largest double, and below
\* 10^-324 it is 0.  Otherwise it is the number itself when a double holds
\* its digits: an integer up to 2^53, or at most 15 digits down to 10^-307,
\* where doubles have their full precision.  An integer of at most nine
\* digits is kept as an integer
Double(neg, digits, point) ==
    CASE point > 309 \/ (point = 309 /\ ~Below(digits, Overflow, 1)) -> Inf(neg)
      [] point = 309 /\ Below(digits, Overflow, 1) /\ Below(LargestFrom, digits, 1) ->
            Dec(neg, Largest, point)
      [] point <= -324 -> Num(0)
      [] /\ \/ Len(digits) <= 15
            \/ /\ Len(digits) <= point
               /\ point < Len(MaxSafe) \/ (point = Len(MaxSafe) /\ ~Below(MaxSafe, digits, 1))
         /\ point >= -306
         /\ point < 309 \/ (point = 309 /\ ~Below(LargestFrom, digits, 1)) ->
            IF Len(digits) <= point /\ point <= 9
            THEN Num((IF neg THEN -1 ELSE 1) * IntOf(digits \o Zeros(point - Len(digits)), 1, 0))
            ELSE Dec(neg, digits, point)

\* the number with the digits all, lead of them zeros at the front and
\* trail at the end, the decimal point after position point
Significant(neg, all, lead, trail, point) ==
    IF lead = Len(all) THEN Num(0)
    ELSE Double(neg, SubSeq(all, lead + 1, Len(all) - trail), point - lead)

\* the number with the integer digits int, the fraction digits frac and
\* the exponent exp
Number(neg, int, frac, exp) ==
    Significant(neg, int \o frac, LeadingZeros(int \o frac, 1),
                TrailingZeros(int \o frac, Len(int \o frac)), Len(int) + exp)

\* the exponent a digit string denotes, lead zeros at its front: one of
\* more than six digits is read as 10^6
Exponent(d, lead) ==
    IF Len(d) - lead > 6 THEN IntOf("1000000", 1, 0) ELSE IntOf(d, lead + 1, 0)

\* the digits of the exponent run from position d to before position e
ExponentRead(t, neg, int, frac, minus, d, e) ==
    IF e = d THEN Bad(d)
    ELSE Good(Number(neg, int, frac,
                     (IF minus THEN -1 ELSE 1)
                        * Exponent(SubSeq(t, d, e - 1), LeadingZeros(SubSeq(t, d, e - 1), 1))),
              e)

\* after the fraction, at position e: an exponent, with or without a sign
ExponentAt(t, neg, int, frac, e) ==
    IF Ch(t, e) \notin {"e", "E"} THEN Good(Number(neg, int, frac, 0), e)
    ELSE IF Ch(t, e + 1) \in {"+", "-"}
    THEN ExponentRead(t, neg, int, frac, Ch(t, e + 1) = "-", e + 2, DigitsEnd(t, e + 2))
    ELSE ExponentRead(t, neg, int, frac, FALSE, e + 1, DigitsEnd(t, e + 1))

\* the digits of the fraction run from position f to before position e
FractionRead(t, neg, int, f, e) ==
    IF e = f THEN Bad(f) ELSE ExponentAt(t, neg, int, SubSeq(t, f, e - 1), e)

\* the integer digits run from position s to before position e: a
\* fraction may follow
FractionAt(t, neg, s, e) ==
    IF Ch(t, e) = "." THEN FractionRead(t, neg, SubSeq(t, s, e - 1), e + 1, DigitsEnd(t, e + 1))
    ELSE ExponentAt(t, neg, SubSeq(t, s, e - 1), "", e)

\* the integer digits from position s: 0, or digits that do not start
\* with 0
Unsigned(t, neg, s) ==
    IF ~IsDigit(Ch(t, s)) THEN Bad(s)
    ELSE FractionAt(t, neg, s, IF Ch(t, s) = "0" THEN s + 1 ELSE DigitsEnd(t, s))

\* a number: an optional sign, the integer digits, an optional fraction,
\* an optional exponent
ParseNumber(t, i) ==
    IF Ch(t, i) = "-" THEN Unsigned(t, TRUE, i + 1) ELSE Unsigned(t, FALSE, i)

Word(t, i, w) == i + Len(w) - 1 <= Len(t) /\ SubSeq(t, i, i + Len(w) - 1) = w

RECURSIVE ParseValue(_, _)
RECURSIVE ParseMembers(_, _, _)
RECURSIVE ParseElements(_, _, _)

\* an array index: the decimal digits of an integer from 0 to 2^32 - 2
IsIndex(k) ==
    /\ k # ""
    /\ \A i \in 1..Len(k) : IsDigit(Ch(k, i))
    /\ Ch(k, 1) = "0" => k = "0"
    /\ Len(k) < Len(MaxIndex) \/ (Len(k) = Len(MaxIndex) /\ ~Below(MaxIndex, k, 1))

\* the property names keys with the new name k: array indices come
\* first, in ascending order, the other names follow in creation order
Insert(keys, k) ==
    IF ~IsIndex(k) THEN Append(keys, k)
    ELSE LET n == Cardinality({j \in 1..Len(keys) :
                                /\ IsIndex(keys[j])
                                /\ \/ Len(keys[j]) < Len(k)
                                   \/ Len(keys[j]) = Len(k) /\ Below(keys[j], k, 1)})
         IN SubSeq(keys, 1, n) \o <<k>> \o SubSeq(keys, n + 1, Len(keys))

\* obj[k] = v on a plain object: a name it has keeps its place
Define(obj, k, v) ==
    Obj(IF k \in DOMAIN obj.fields THEN obj.keys ELSE Insert(obj.keys, k),
        (k :> v) @@ obj.fields)

\* after a member, at position e: a comma and more members, or the end
MembersNext(t, obj, e) ==
    IF Ch(t, e) = "," THEN ParseMembers(t, e + 1, obj)
    ELSE IF Ch(t, e) = "}" THEN Good(obj, e + 1)
    ELSE Bad(e)

\* the value val read for the member name; a repeated name keeps its last
\* value
MemberRead(t, name, val, acc) ==
    IF ~val.ok THEN val
    ELSE MembersNext(t, Define(acc, name, val.val), SkipWs(t, val.pos))

\* the colon expected at position c, then the value of the member
MemberValue(t, name, c, acc) ==
    IF Ch(t, c) # ":" THEN Bad(c)
    ELSE MemberRead(t, name, ParseValue(t, c + 1), acc)

\* the name key read for a member
MemberName(t, key, acc) ==
    IF ~key.ok THEN key
    ELSE MemberValue(t, key.val.s, SkipWs(t, key.pos), acc)

\* a member expected at position j: its name opens with a quote
MemberAt(t, j, acc) ==
    IF Ch(t, j) # "\"" THEN Bad(j)
    ELSE MemberName(t, ParseString(t, j + 1, ""), acc)

\* the members of an object from position i
ParseMembers(t, i, acc) == MemberAt(t, SkipWs(t, i), acc)

\* after an element, at position e: a comma and more elements, or the end
ElementsNext(t, items, e) ==
    IF Ch(t, e) = "," THEN ParseElements(t, e + 1, items)
    ELSE IF Ch(t, e) = "]" THEN Good(Arr(items), e + 1)
    ELSE Bad(e)

\* the value val read for an element
ElementRead(t, val, acc) ==
    IF ~val.ok THEN val
    ELSE ElementsNext(t, Append(acc, val.val), SkipWs(t, val.pos))

\* the elements of an array from position i
ParseElements(t, i, acc) == ElementRead(t, ParseValue(t, i), acc)

\* after the opening brace, at position k
ObjectAt(t, k) ==
    IF Ch(t, k) = "}" THEN Good(Obj(<<>>, Empty), k + 1)
    ELSE ParseMembers(t, k, Obj(<<>>, Empty))

\* after the opening bracket, at position k
ArrayAt(t, k) ==
    IF Ch(t, k) = "]" THEN Good(Arr(<<>>), k + 1) ELSE ParseElements(t, k, <<>>)

\* the value that starts with the character c at position j
ValueOf(t, j, c) ==
    CASE c = "\"" -> ParseString(t, j + 1, "")
      [] c = "{" -> ObjectAt(t, SkipWs(t, j + 1))
      [] c = "[" -> ArrayAt(t, SkipWs(t, j + 1))
      [] Word(t, j, "true") -> Good(Bool(TRUE), j + 4)
      [] Word(t, j, "false") -> Good(Bool(FALSE), j + 5)
      [] Word(t, j, "null") -> Good(Null, j + 4)
      [] c = "-" \/ IsDigit(c) -> ParseNumber(t, j)
      [] OTHER -> Bad(j)

ValueAt(t, j) == ValueOf(t, j, Ch(t, j))

\* one JSON value from position i, after whitespace
ParseValue(t, i) == ValueAt(t, SkipWs(t, i))

\* the value r read from the whole text: nothing but whitespace may follow
Whole(text, r) ==
    IF ~r.ok THEN r.val
    ELSE IF SkipWs(text, r.pos) = Len(text) + 1 THEN r.val
    ELSE SyntaxError

\* marshalling.parse(text): the value the text denotes, SyntaxError when it
\* is not one JSON text
Parse(text) == Whole(text, ParseValue(text, 1))

\* parse(stringify(v)) for a value that has a JSON text, computed on the
\* value: what the receiver reads where the sender wrote v
RECURSIVE Wire(_)
Wire(v) ==
    CASE v.t = "array" ->
            Arr([i \in 1..Len(v.items) |->
                    IF v.items[i].t = "undefined" THEN Null ELSE Wire(v.items[i])])
      [] v.t = "object" ->
            Obj(Defined(v), [k \in {x \in DOMAIN v.fields : v.fields[x].t # "undefined"} |->
                                Wire(v.fields[k])])
      [] v.t = "Error" -> Wire(Obj(<<"name">>, "name" :> v.name))
      [] v.t = "number" /\ "inf" \in DOMAIN v -> Null
      [] OTHER -> v

\* the first statement of RPCManager._receiveOneMessage fails (line 43), or
\* the first property read of a message that is null (line 45)
Thrown(kind) == [thrown |-> [t |-> kind]]

\* the value v a wire text denotes, as a message: the properties of an
\* object, none for a number, a string, a boolean or an array
Message(v) ==
    CASE v = SyntaxError -> Thrown("SyntaxError")
      [] v.t = "null" -> Thrown("TypeError")
      [] v.t = "object" -> v.fields
      [] OTHER -> Empty

\* a wire text as the receiver decodes it (line 43)
Decode(text) == Message(Parse(text))

\* A text written between the quotes of a template is read back as itself
\* when it holds no quote, no backslash and no control character
Plain(s) == \A i \in 1..Len(s) : Ch(s, i) \notin {"\"", "\\"} \cup Control

\* --------------------------------------------------------- MessageFactory
\* The factory methods write req, rpcId and method between quotes as they
\* are.  XText is the text method x returns; X is that text as the receiver
\* decodes it, read off the arguments when every quoted part is plain (and,
\* for a result, when it is null, a boolean, an integer or a plain string).
CancelText(req) == "{\"cancel\":\"" \o req \o "\"}"

Cancel(req) ==
    IF Plain(req) THEN [cancel |-> Str(req)] ELSE Decode(CancelText(req))

RequestText(req, rpcId, method, args) ==
    "{\"req\":\"" \o req \o "\",\"rpcId\":\"" \o rpcId \o "\",\"method\":\"" \o method
        \o "\",\"args\":" \o Stringify(args) \o "}"

Request(req, rpcId, method, args) ==
    IF Plain(req) /\ Plain(rpcId) /\ Plain(method) /\ args.t # "undefined"
    THEN [req |-> Str(req), rpcId |-> Str(rpcId), method |-> Str(method),
          args |-> Wire(args)]
    ELSE Decode(RequestText(req, rpcId, method, args))

\* variant of ReplyOK: the res field is left out for every falsy result
ReplyOKTruthy(req, res) ==
    IF ~Truthy(res)
    THEN [seq |-> Str(req)]
    ELSE [seq |-> Str(req), res |-> Wire(res)]

ReplyOKText(req, res) ==
    IF res.t = "undefined"
    THEN "{\"seq\":\"" \o req \o "\"}"
    ELSE "{\"seq\":\"" \o req \o "\",\"res\":" \o Stringify(res) \o "}"

ReplyOK(req, res) ==
    IF ~Plain(req) THEN Decode(ReplyOKText(req, res))
    ELSE IF res.t = "undefined" THEN [seq |-> Str(req)]
    ELSE IF \/ res.t \in {"null", "boolean"}
            \/ res.t = "number" /\ "n" \in DOMAIN res
            \/ res.t = "string" /\ Plain(res.s)
    THEN [seq |-> Str(req), res |-> res]
    ELSE Decode(ReplyOKText(req, res))

ReplyErrText(req, err) ==
    IF err.t = "undefined"
    THEN "{\"seq\":\"" \o req \o "\",\"err\":null}"
    ELSE "{\"seq\":\"" \o req \o "\",\"err\":"
            \o Stringify(TransformErrorForSerialization(err)) \o "}"

ReplyErr(req, err) ==
    IF ~Plain(req) THEN Decode(ReplyErrText(req, err))
    ELSE IF err.t = "undefined" THEN [seq |-> Str(req), err |-> Null]
    ELSE [seq |-> Str(req), err |-> Wire(TransformErrorForSerialization(err))]

\* ------------------------------------------------------------------ state
VARIABLES
    bigHandler,          \* RPCManager._bigHandler
    lastMessageId,       \* RPCManager._lastMessageId
    invokedHandlers,     \* RPCManager._invokedHandlers: req key -> promise
    pendingRPCReplies,   \* RPCManager._pendingRPCReplies: msgId -> LazyPromise
    messagesToSend,      \* RPCMultiplexer._messagesToSend
    messagesToReceive,   \* RPCMultiplexer._messagesToReceive
    nextTick,            \* callbacks queued with process.nextTick, in order
    lazy,                \* the LazyPromise objects callOnRemote has created
    promises,            \* the promises _invokeHandler has returned
    sends,               \* history: number of RPCMultiplexer.send calls
    flushed,             \* history: number of messages handed to protocol.send
    arrivals,            \* history: number of inbound messages arrived
    dispatches,          \* history: number of message callback invocations
    sentNow,             \* the protocol.send calls of the latest step: batches
    dispatchedNow,       \* the message callback invocations of the latest step
    ranNow,              \* the nextTick callback the latest step ran, if any
    wire                 \* the transport: the batches on their way to each end

vars == <<bigHandler, lastMessageId, invokedHandlers, pendingRPCReplies,
          messagesToSend, messagesToReceive, nextTick, lazy, promises,
          sends, flushed, arrivals, dispatches, sentNow, dispatchedNow,
          ranNow, wire>>

\* A queued message carries, as history, its position n in the stream it
\* belongs to: the n-th message passed to send, or the n-th message arrived.
Tag(msg, n) == [msg |-> msg, n |-> n]

NoHandler == "null"
Handlers == {"h1", "h2"}

\* delete obj[key]
Remove(obj, key) == [k \in (DOMAIN obj) \ {key} |-> obj[k]]
\* obj[key] = val
Put(obj, key, val) == [k \in (DOMAIN obj) \cup {key} |-> IF k = key THEN val ELSE obj[k]]

Last(q) == q[Len(q)]

\* The state of one end of the channel, as one record, at the start of a
\* step: what the step hands to the transport and to the callback is empty
Cur(m) ==
    [bigHandler |-> bigHandler[m], lastMessageId |-> lastMessageId[m],
     invokedHandlers |-> invokedHandlers[m],
     pendingRPCReplies |-> pendingRPCReplies[m],
     messagesToSend |-> messagesToSend[m],
     messagesToReceive |-> messagesToReceive[m],
     nextTick |-> nextTick[m], lazy |-> lazy[m], promises |-> promises[m],
     sends |-> sends[m], flushed |-> flushed[m], arrivals |-> arrivals[m],
     dispatches |-> dispatches[m], sentNow |-> <<>>, dispatchedNow |-> <<>>,
     ranNow |-> "none"]

\* The state after construction (RPCManager and RPCMultiplexer constructors)
New ==
    [bigHandler |-> NoHandler, lastMessageId |-> 0,
     invokedHandlers |-> Empty, pendingRPCReplies |-> Empty,
     messagesToSend |-> <<>>, messagesToReceive |-> <<>>,
     nextTick |-> <<>>, lazy |-> <<>>, promises |-> <<>>,
     sends |-> 0, flushed |-> 0, arrivals |-> 0,
     dispatches |-> 0, sentNow |-> <<>>, dispatchedNow |-> <<>>,
     ranNow |-> "none"]

\* the step leaves end m of the channel in state S
Update(m, S) ==
    /\ bigHandler' = [bigHandler EXCEPT ![m] = S.bigHandler]
    /\ lastMessageId' = [lastMessageId EXCEPT ![m] = S.lastMessageId]
    /\ invokedHandlers' = [invokedHandlers EXCEPT ![m] = S.invokedHandlers]
    /\ pendingRPCReplies' = [pendingRPCReplies EXCEPT ![m] = S.pendingRPCReplies]
    /\ messagesToSend' = [messagesToSend EXCEPT ![m] = S.messagesToSend]
    /\ messagesToReceive' = [messagesToReceive EXCEPT ![m] = S.messagesToReceive]
    /\ nextTick' = [nextTick EXCEPT ![m] = S.nextTick]
    /\ lazy' = [lazy EXCEPT ![m] = S.lazy]
    /\ promises' = [promises EXCEPT ![m] = S.promises]
    /\ sends' = [sends EXCEPT ![m] = S.sends]
    /\ flushed' = [flushed EXCEPT ![m] = S.flushed]
    /\ arrivals' = [arrivals EXCEPT ![m] = S.arrivals]
    /\ dispatches' = [dispatches EXCEPT ![m] = S.dispatches]
    /\ sentNow' = [sentNow EXCEPT ![m] = S.sentNow]
    /\ dispatchedNow' = [dispatchedNow EXCEPT ![m] = S.dispatchedNow]
    /\ ranNow' = [ranNow EXCEPT ![m] = S.ranNow]

\* a step of end m alone: nothing enters or leaves the transport's queues
Commit(m, S) ==
    /\ Update(m, S)
    /\ UNCHANGED wire

\* ---------------------------------------------------------- RPCMultiplexer
\* variant of FlushNeeded: every send schedules a flush
FlushAlways(buffer) == TRUE

\* `if (this._messagesToSend.length === 0)` of send: a flush is to be scheduled
FlushNeeded(buffer) == Len(buffer) = 0

\* `this._messagesToSend.push(msg)` of send
Push(buffer, item) == Append(buffer, item)

\* variant of MuxSend: the buffer is tested after the push
SendPushFirst(S, msg) ==
    LET buffer == Push(S.messagesToSend, Tag(msg, S.sends + 1)) IN
    [S EXCEPT !.nextTick = IF FlushNeeded(buffer) THEN Append(@, "send") ELSE @,
              !.messagesToSend = buffer,
              !.sends = @ + 1]

\* RPCMultiplexer.send: the first message of a burst schedules the flush
MuxSend(S, msg) ==
    [S EXCEPT !.nextTick = IF FlushNeeded(S.messagesToSend) THEN Append(@, "send") ELSE @,
              !.messagesToSend = Push(@, Tag(msg, S.sends + 1)),
              !.sends = @ + 1]

\* variant of SendAccumulated: the buffer is handed over but not swapped
SendWithoutSwap(S) ==
    [S EXCEPT !.ranNow = "send",
              !.sentNow = Append(@, S.messagesToSend),
              !.flushed = @ + Len(S.messagesToSend)]

\* RPCMultiplexer._sendAccumulated: swap the buffer, one protocol.send
SendAccumulated(S) ==
    [S EXCEPT !.ranNow = "send",
              !.messagesToSend = <<>>,
              !.sentNow = Append(@, S.messagesToSend),
              !.flushed = @ + Len(S.messagesToSend)]

\* variant of Concat: the new batch goes in front of the queued messages
ConcatInFront(queue, data) == data \o queue

\* `this._messagesToReceive.concat(data)` of the onMessage callback
Concat(queue, data) == queue \o data

\* variant of OnBatchArrived: the queue is tested after the concat
ArrivedConcatFirst(S, data) ==
    LET queue == Concat(S.messagesToReceive, [k \in 1..Len(data) |-> Tag(data[k], S.arrivals + k)]) IN
    [S EXCEPT !.nextTick = IF Len(queue) = 0 THEN Append(@, "receive") ELSE @,
              !.messagesToReceive = queue,
              !.arrivals = @ + Len(data)]

\* the protocol.onMessage callback of the RPCMultiplexer constructor
OnBatchArrived(S, data) ==
    [S EXCEPT !.nextTick = IF Len(S.messagesToReceive) = 0 THEN Append(@, "receive") ELSE @,
              !.messagesToReceive = Concat(@, [k \in 1..Len(data) |-> Tag(data[k], S.arrivals + k)]),
              !.arrivals = @ + Len(data)]

\* --------------------------------------------------------------- LazyPromise
\* new LazyPromise(onCancel) for the call with id req
LazyNew(req) ==
    [req |-> req, state |-> "Pending", value |-> Undef, cancelRequested |-> FALSE,
     resolveCalls |-> 0, cancelsSent |-> 0]

LazyResolveOk(p, value) ==
    IF p.state = "Pending"
    THEN [p EXCEPT !.state = "ResolvedOk", !.value = value, !.resolveCalls = @ + 1]
    ELSE [p EXCEPT !.resolveCalls = @ + 1]

LazyResolveErr(p, err) ==
    IF p.state = "Pending"
    THEN [p EXCEPT !.state = "ResolvedError", !.value = err, !.resolveCalls = @ + 1]
    ELSE [p EXCEPT !.resolveCalls = @ + 1]

\* variant of OnCancel: cancelling also drops the call's local bookkeeping
OnCancelForgets(S, i) ==
    MuxSend([S EXCEPT !.lazy[i].cancelsSent = @ + 1,
                      !.pendingRPCReplies = Remove(@, S.lazy[i].req)],
            Cancel(S.lazy[i].req))

\* variant of OnCancel: cancelling rejects the deferred result locally
OnCancelRejects(S, i) ==
    MuxSend([S EXCEPT !.lazy[i].cancelsSent = @ + 1,
                      !.lazy[i].state = "ResolvedError",
                      !.lazy[i].value = ErrorObj("Canceled")],
            Cancel(S.lazy[i].req))

\* the onCancel closure callOnRemote hands to its i-th LazyPromise
OnCancel(S, i) ==
    MuxSend([S EXCEPT !.lazy[i].cancelsSent = @ + 1], Cancel(S.lazy[i].req))

\* LazyPromise.cancel(): runs onCancel once while pending, never resolves
LazyCancel(S, i) ==
    LET p == S.lazy[i]
    IN IF p.state = "Pending" /\ ~p.cancelRequested
       THEN OnCancel([S EXCEPT !.lazy[i].cancelRequested = TRUE], i)
       ELSE S

\* --------------------------------------------------------------- RPCManager
\* the error escapes the running dispatch: recorded on its history entry
Throw(S) == [S EXCEPT !.dispatchedNow[Len(S.dispatchedNow)].threw = TRUE]

\* reply branch, the error rebuilt from a marked payload (lines 54-60)
ReplyError(err) ==
    IF err.t = "object" /\ Truthy(Get(err.fields, "$isError"))
    THEN [t |-> "Error", name |-> Get(err.fields, "name")]
    ELSE err

\* `!this._pendingRPCReplies.hasOwnProperty(msg.seq)` (line 46)
UnknownSeq(pending, key) == key \notin DOMAIN pending

\* variant of Forget: the entry stays in the map
KeepEntry(pending, key) == pending

\* `delete this._pendingRPCReplies[msg.seq]` (line 51)
Forget(pending, key) == Remove(pending, key)

\* variant of DropReply: the unknown reply is treated as a fatal error
DropReplyThrows(S) == [S EXCEPT !.dispatchedNow[Len(S.dispatchedNow)].threw = TRUE]

\* `console.warn('Got reply to unknown seq'); return;` (lines 47-48)
DropReply(S) == S

\* reply branch of RPCManager._receiveOneMessage (lines 46-66): a seq
\* that has no text as a key throws out of the lookup
ReplyBranch(S, msg) ==
    LET key == ToKey(Get(msg, "seq")) IN
    IF ~Keyable(Get(msg, "seq")) THEN Throw(S)
    ELSE IF UnknownSeq(S.pendingRPCReplies, key)
    THEN DropReply(S)
    ELSE LET i == S.pendingRPCReplies[key]
             S1 == [S EXCEPT !.pendingRPCReplies = Forget(@, key)]
             err == Get(msg, "err")
         IN IF Truthy(err)
            THEN [S1 EXCEPT !.lazy[i] = LazyResolveErr(@, ReplyError(err))]
            ELSE [S1 EXCEPT !.lazy[i] = LazyResolveOk(@, Get(msg, "res"))]

\* bare error branch of RPCManager._receiveOneMessage (lines 77-78)
BareErrorBranch(S, msg) == S

\* RPCManager._invokeHandler: the promise for what the handler did.
\* out.kind is "return" (a value), "throw" (a synchronous failure) or
\* "promise" (the handler returned a promise that is still pending)
InvokeHandler(handler, rpcId, out) ==
    [handler |-> handler, rpcId |-> rpcId, key |-> "",
     state |-> CASE out.kind = "return" -> "ok"
                 [] out.kind = "throw" -> "error"
                 [] OTHER -> "pending",
     value |-> out.value, cancelCalls |-> 0, replies |-> <<>>, listened |-> FALSE]

\* variant of ReplyFor: the failure continuation builds an ok reply too
ReplyAlwaysOk(p) == ReplyOK(p.key, p.value)

\* the reply the continuations build for a settled promise (lines 93, 96)
ReplyFor(p) ==
    IF p.state = "ok" THEN ReplyOK(p.key, p.value) ELSE ReplyErr(p.key, p.value)

\* variant of Continuation: the reply is sent but the entry stays in the map
ContinuationKeeps(S, i) ==
    LET p == S.promises[i]
        S1 == [S EXCEPT !.promises[i].replies = Append(@, ReplyFor(p))]
    IN MuxSend(S1, ReplyFor(p))

\* the two continuations attached with then (lines 91-97), for promise i
Continuation(S, i) ==
    LET p == S.promises[i]
        S1 == [S EXCEPT !.invokedHandlers = Remove(@, p.key),
                        !.promises[i].replies = Append(@, ReplyFor(p))]
    IN MuxSend(S1, ReplyFor(p))

\* what cancel() on a pending handler promise may do at once
CancelOutcomes == {"pending", "completes"}

\* cancel() on the handler promise i: a request to stop.  The owner of the
\* work decides whether it stops at once, which completes the promise as
\* cancelled and runs the failure continuation, or goes on
PromiseCancel(S, i, how) ==
    LET S1 == [S EXCEPT !.promises[i].cancelCalls = @ + 1] IN
    IF how = "completes" /\ S.promises[i].state = "pending"
    THEN Continuation([S1 EXCEPT !.promises[i].state = "error",
                                 !.promises[i].value = ErrorObj("Canceled")], i)
    ELSE S1

\* variant of CancelBranch: the id is looked up among the outbound calls too
CancelForgetsCall(S, msg, how) ==
    LET key == ToKey(Get(msg, "cancel"))
        S1 == [S EXCEPT !.pendingRPCReplies = Remove(@, key)]
    IN IF ~Keyable(Get(msg, "cancel")) THEN Throw(S)
       ELSE IF key \in DOMAIN S.invokedHandlers
       THEN PromiseCancel(S1, S.invokedHandlers[key], how)
       ELSE S1

\* variant of CancelBranch: a Cancel message answers the request by itself
CancelReplies(S, msg, how) ==
    LET key == ToKey(Get(msg, "cancel")) IN
    IF ~Keyable(Get(msg, "cancel")) THEN Throw(S)
    ELSE IF key \in DOMAIN S.invokedHandlers
    THEN MuxSend(PromiseCancel(S, S.invokedHandlers[key], "pending"),
                 ReplyErr(key, ErrorObj("Canceled")))
    ELSE S

\* cancel branch of RPCManager._receiveOneMessage (lines 70-73): an id
\* that has no text as a key throws out of the lookup
CancelBranch(S, msg, how) ==
    LET key == ToKey(Get(msg, "cancel")) IN
    IF ~Keyable(Get(msg, "cancel")) THEN Throw(S)
    ELSE IF key \in DOMAIN S.invokedHandlers
    THEN PromiseCancel(S, S.invokedHandlers[key], how)
    ELSE S

\* `!this._bigHandler` (line 83)
HandlerMissing(handler) == handler = NoHandler

\* request branch of RPCManager._receiveOneMessage (lines 81-97).  The
\* handler is invoked before its promise is stored (line 89): a req that
\* has no text as a key throws there, the promise stored nowhere and
\* without the continuations of lines 91-97
RequestBranch(S, msg, out) ==
    IF HandlerMissing(S.bigHandler)
    THEN Throw(S)
    ELSE LET key == ToKey(Get(msg, "req"))
             invoked == InvokeHandler(S.bigHandler, Get(msg, "rpcId"), out)
             p == [invoked EXCEPT !.key = key, !.listened = TRUE]
             i == Len(S.promises) + 1
             S1 == [S EXCEPT !.promises = Append(@, p),
                             !.invokedHandlers = Put(@, key, i)]
         IN IF ~Keyable(Get(msg, "req")) THEN Throw([S EXCEPT !.promises = Append(@, invoked)])
            ELSE IF p.state = "pending" THEN S1 ELSE Continuation(S1, i)

\* the handler promise i settles as r: the continuations run when they
\* were attached
Settle(S, i, r) ==
    LET S1 == [S EXCEPT !.promises[i].state = r.state, !.promises[i].value = r.value]
    IN IF S.promises[i].listened THEN Continuation(S1, i) ELSE S1

\* the branch RPCManager._receiveOneMessage takes for a message: out at once
\* when the text does not parse or denotes null (lines 43, 45), else the
\* tests `if (msg.seq)`, `if (msg.cancel)`, `if (msg.err)` in this order
\* (lines 45, 69, 76), the request branch when none of them passes
Classify(msg) ==
    IF msg \in {Thrown("SyntaxError"), Thrown("TypeError")} THEN "throw"
    ELSE IF Truthy(Get(msg, "seq")) THEN "reply"
    ELSE IF Truthy(Get(msg, "cancel")) THEN "cancel"
    ELSE IF Truthy(Get(msg, "err")) THEN "error"
    ELSE "request"

\* RPCManager._receiveOneMessage, for the n-th message arrived
ReceiveOneMessage(S, item, out, how) ==
    LET msg == item.msg
        branch == Classify(msg)
        S1 == [S EXCEPT !.dispatchedNow = Append(@, [msg |-> msg, n |-> item.n, threw |-> FALSE,
                                                     branch |-> branch]),
                        !.dispatches = @ + 1]
    IN CASE branch = "throw" -> Throw(S1)
         [] branch = "reply" -> ReplyBranch(S1, msg)
         [] branch = "cancel" -> CancelBranch(S1, msg, how)
         [] branch = "error" -> BareErrorBranch(S1, msg)
         [] branch = "request" -> RequestBranch(S1, msg, out)

\* variant of MuxReceiveOneMessage: the next delivery is scheduled after the
\* callback has returned, so not when the callback throws
RescheduleAfterCallback(S, out, how) ==
    LET rawmsg == Head(S.messagesToReceive)
        rest == Tail(S.messagesToReceive)
        S1 == ReceiveOneMessage([S EXCEPT !.ranNow = "receive", !.messagesToReceive = rest],
                                rawmsg, out, how)
    IN IF Len(rest) > 0 /\ ~Last(S1.dispatchedNow).threw
       THEN [S1 EXCEPT !.nextTick = Append(@, "receive")]
       ELSE S1

\* RPCMultiplexer._receiveOneMessage: shift one message, schedule the next
\* delivery when more remain, then run the callback
MuxReceiveOneMessage(S, out, how) ==
    LET rawmsg == Head(S.messagesToReceive)
        rest == Tail(S.messagesToReceive)
        S1 == [S EXCEPT !.ranNow = "receive",
                        !.messagesToReceive = rest,
                        !.nextTick = IF Len(rest) > 0 THEN Append(@, "receive") ELSE @]
    IN ReceiveOneMessage(S1, rawmsg, out, how)

\* variant of NextId: the counter is read but not advanced
SameId(lastId) == lastId

\* `String(++this._lastMessageId)` (line 109): the id of the next call
NextId(lastId) == lastId + 1

\* RPCManager.callOnRemote
CallOnRemote(S, proxyId, path, args) ==
    LET id == NextId(S.lastMessageId)
        req == String(id)
        S1 == [S EXCEPT !.lastMessageId = id,
                        !.lazy = Append(@, LazyNew(req)),
                        !.pendingRPCReplies = Put(@, req, Len(S.lazy) + 1)]
    IN MuxSend(S1, Request(req, proxyId, path, args))

\* RPCManager.setManyHandler
SetManyHandler(S, handler) == [S EXCEPT !.bigHandler = handler]

\* ------------------------------------------------------------------ inputs
Args == Arr(<<Num(1), Num(2)>>)

\* what a handler invocation may do
HandlerOutcomes ==
    {[kind |-> "return", value |-> Num(42)],
     [kind |-> "throw", value |-> ErrorObj("E")],
     [kind |-> "promise", value |-> Undef]}

\* how a pending handler promise may settle
Settlements ==
    {[state |-> "ok", value |-> Num(42)],
     [state |-> "error", value |-> ErrorObj("E")]}

\* the messages the peer may send
InboundMessages ==
    {Request("1", "svc.foo", "bar", Args), Cancel("1"),
     ReplyOK("1", Num(42)), ReplyErr("1", Undef), ReplyErr("1", ErrorObj("E")),
     ReplyOK("2", Num(42)),
     [err |-> Str("boom")], [err |-> Null]}

Batches == UNION {[1..n -> InboundMessages] : n \in 1..MaxBatch}

\* ------------------------------------------------------------------ actions
Init ==
    /\ bigHandler = [m \in Mgr |-> New.bigHandler]
    /\ lastMessageId = [m \in Mgr |-> New.lastMessageId]
    /\ invokedHandlers = [m \in Mgr |-> New.invokedHandlers]
    /\ pendingRPCReplies = [m \in Mgr |-> New.pendingRPCReplies]
    /\ messagesToSend = [m \in Mgr |-> New.messagesToSend]
    /\ messagesToReceive = [m \in Mgr |-> New.messagesToReceive]
    /\ nextTick = [m \in Mgr |-> New.nextTick]
    /\ lazy = [m \in Mgr |-> New.lazy]
    /\ promises = [m \in Mgr |-> New.promises]
    /\ sends = [m \in Mgr |-> New.sends]
    /\ flushed = [m \in Mgr |-> New.flushed]
    /\ arrivals = [m \in Mgr |-> New.arrivals]
    /\ dispatches = [m \in Mgr |-> New.dispatches]
    /\ sentNow = [m \in Mgr |-> New.sentNow]
    /\ dispatchedNow = [m \in Mgr |-> New.dispatchedNow]
    /\ ranNow = [m \in Mgr |-> New.ranNow]
    /\ wire = [m \in Mgr |-> <<>>]

\* a caller invokes callOnRemote
Call(m) ==
    /\ lastMessageId[m] < MaxCalls
    /\ Commit(m, CallOnRemote(Cur(m), "svc.foo", "bar", Args))

\* a caller invokes cancel() on the deferred result of its i-th call
CancelCall(m) ==
    \E i \in 1..Len(lazy[m]) : Commit(m, LazyCancel(Cur(m), i))

\* setManyHandler(handler)
SetHandler(m) ==
    \E h \in Handlers :
        /\ bigHandler[m] # h
        /\ Commit(m, SetManyHandler(Cur(m), h))

\* the transport hands over a batch from the peer
Arrive(m) ==
    \E data \in Batches :
        /\ arrivals[m] + Len(data) <= MaxArrive
        /\ Commit(m, OnBatchArrived(Cur(m), data))

\* the next nextTick callback is the flush
FlushTick(m) ==
    /\ nextTick[m] # <<>>
    /\ Head(nextTick[m]) = "send"
    /\ Commit(m, SendAccumulated([Cur(m) EXCEPT !.nextTick = Tail(@)]))

\* the next nextTick callback is the delivery of one inbound message
ReceiveTick(m) ==
    /\ nextTick[m] # <<>>
    /\ Head(nextTick[m]) = "receive"
    /\ \E out \in HandlerOutcomes, how \in CancelOutcomes :
        Commit(m, MuxReceiveOneMessage([Cur(m) EXCEPT !.nextTick = Tail(@)], out, how))

\* a pending handler promise settles and its continuation runs
HandlerSettles(m) ==
    \E i \in 1..Len(promises[m]), r \in Settlements :
        /\ promises[m][i].state = "pending"
        /\ Commit(m, Settle(Cur(m), i, r))

Local == 1

Next ==
    \/ Call(Local)
    \/ CancelCall(Local)
    \/ SetHandler(Local)
    \/ Arrive(Local)
    \/ FlushTick(Local)
    \/ ReceiveTick(Local)
    \/ HandlerSettles(Local)

Spec == Init /\ [][Next]_vars

\* ------------------------------------------- the callee side, on its own
MaxInbound == 4     \* inbound messages handed to a callee-only manager

\* what a peer that only calls may send: requests and cancellations
PeerTraffic ==
    {Request("1", "svc.foo", "bar", Args), Request("2", "svc.foo", "bar", Args),
     Cancel("1"), Cancel("2")}

PeerBatches == UNION {[1..n -> PeerTraffic] : n \in 1..MaxBatch}

\* the peer has sent a request with this id and has not been handed its
\* reply: the request is queued, in flight, or its reply is still buffered
Unanswered(m, key) ==
    \/ \E k \in 1..Len(messagesToReceive[m]) :
          Get(messagesToReceive[m][k].msg, "req") = Str(key)
    \/ key \in DOMAIN invokedHandlers[m]
    \/ \E k \in 1..Len(messagesToSend[m]) :
          Get(messagesToSend[m][k].msg, "seq") = Str(key)

\* the peer keeps request ids distinct among its unanswered requests
DistinctRequestIds(m, data) ==
    /\ \A k \in 1..Len(data) :
          "req" \in DOMAIN data[k] => ~Unanswered(m, ToKey(data[k].req))
    /\ \A j, k \in 1..Len(data) :
          (j # k /\ "req" \in DOMAIN data[j] /\ "req" \in DOMAIN data[k]) =>
              data[j].req # data[k].req

\* the transport hands over a batch from a peer that only calls
ArriveFromCaller(m) ==
    \E data \in PeerBatches :
        /\ arrivals[m] + Len(data) <= MaxInbound
        /\ DistinctRequestIds(m, data)
        /\ Commit(m, OnBatchArrived(Cur(m), data))

NextCallee ==
    \/ SetHandler(Local)
    \/ ArriveFromCaller(Local)
    \/ FlushTick(Local)
    \/ ReceiveTick(Local)
    \/ HandlerSettles(Local)

SpecCallee == Init /\ [][NextCallee]_vars

\* ------------------------------------------- any decoded message, dispatched
MaxDecode == 1      \* messages handed to the manager that decodes any object

\* the values a discriminating field may hold: null, the other falsy
\* values, an id, and an object that has no text as a key
FieldValues ==
    {Null, Num(0), Bool(FALSE), Str(""), Str("1"), Obj(<<"toString">>, "toString" :> Num(1))}

\* every decoded object over the discriminating fields: each of seq, cancel,
\* err and req absent or holding one of the values, rpcId absent or present
AnyMessages ==
    UNION {[F -> FieldValues] : F \in SUBSET {"seq", "cancel", "err", "req"}}
    \cup UNION {{[f \in F \cup {"rpcId"} |-> IF f = "rpcId" THEN Str("svc.foo") ELSE g[f]] :
                    g \in [F -> FieldValues]} :
                F \in SUBSET {"seq", "cancel", "err", "req"}}

\* the transport hands over one message of any shape
ArriveAny(m) ==
    /\ arrivals[m] < MaxDecode
    /\ \E msg \in AnyMessages : Commit(m, OnBatchArrived(Cur(m), <<msg>>))

\* the first callOnRemote of a manager
FirstCall(m) ==
    /\ lastMessageId[m] = 0
    /\ Call(m)

NextDecode ==
    \/ FirstCall(Local)
    \/ SetHandler(Local)
    \/ ArriveAny(Local)
    \/ FlushTick(Local)
    \/ ReceiveTick(Local)
    \/ HandlerSettles(Local)

SpecDecode == Init /\ [][NextDecode]_vars

\* ------------------------------------------- two managers on one transport
Remote == 2

\* the other end of the channel
Peer(m) == IF m = Local THEN Remote ELSE Local

\* the values a handler may return: nothing, the falsy values, and values
\* of every other kind, among them Infinity, an array with an undefined
\* element, an object with an undefined property and an Error
ResultValues ==
    {Undef, Null, Num(0), Bool(FALSE), Str(""), Num(42),
     Dec(FALSE, "15", 1), Str("a\"b\\c"),
     Obj(<<"a", "b">>, ("a" :> Arr(<<Num(1), Dec(TRUE, "25", 0), Null>>)) @@ ("b" :> Str("x\ny"))),
     Inf(FALSE), Arr(<<Num(1), Undef>>), Obj(<<"a", "b">>, ("a" :> Undef) @@ ("b" :> Num(1))),
     ErrorObj("E")}

\* what a handler invocation at the callee may do
DuplexOutcomes ==
    {[kind |-> "return", value |-> v] : v \in ResultValues}
    \cup {[kind |-> "throw", value |-> ErrorObj("E")],
          [kind |-> "promise", value |-> Undef]}

\* the texts of a send buffer, as protocol.send gets them
Texts(buffer) == [k \in 1..Len(buffer) |-> buffer[k].msg]

\* the callee registers its handler
Register(m) ==
    /\ bigHandler[m] = NoHandler
    /\ Commit(m, SetManyHandler(Cur(m), "h1"))

\* the capability ids a caller may name: a dotted identifier, and a name
\* that holds a quote
ProxyIds == {"svc.foo", "svc\"foo"}

\* callOnRemote, once the other end has its handler
CallPeer(m) ==
    /\ bigHandler[Peer(m)] # NoHandler
    /\ lastMessageId[m] < MaxCalls
    /\ \E proxyId \in ProxyIds :
           Commit(m, CallOnRemote(Cur(m), proxyId, "bar", Args))

\* the flush tick of m: protocol.send puts the batch on the transport
Transmit(m) ==
    /\ nextTick[m] # <<>>
    /\ Head(nextTick[m]) = "send"
    /\ Update(m, SendAccumulated([Cur(m) EXCEPT !.nextTick = Tail(@)]))
    /\ wire' = [wire EXCEPT ![Peer(m)] = Append(@, Texts(messagesToSend[m]))]

\* the transport hands the oldest batch on its way to m to the onMessage
\* callback of m
Deliver(m) ==
    /\ wire[m] # <<>>
    /\ Update(m, OnBatchArrived(Cur(m), Head(wire[m])))
    /\ wire' = [wire EXCEPT ![m] = Tail(@)]

\* the delivery tick of m
Dispatch(m) ==
    /\ nextTick[m] # <<>>
    /\ Head(nextTick[m]) = "receive"
    /\ \E out \in DuplexOutcomes, how \in CancelOutcomes :
        Commit(m, MuxReceiveOneMessage([Cur(m) EXCEPT !.nextTick = Tail(@)], out, how))

\* two managers, the handler returning any of the result values
NextRoundTrip ==
    \/ Register(Remote)
    \/ CallPeer(Local)
    \/ Transmit(Local)
    \/ Transmit(Remote)
    \/ Deliver(Local)
    \/ Deliver(Remote)
    \/ Dispatch(Local)
    \/ Dispatch(Remote)
    \/ HandlerSettles(Remote)

SpecRoundTrip == Init /\ [][NextRoundTrip]_vars

\* two managers, the caller free to cancel its calls
NextDuplex ==
    \/ Register(Remote)
    \/ CallPeer(Local)
    \/ CancelCall(Local)
    \/ Transmit(Local)
    \/ Transmit(Remote)
    \/ Deliver(Local)
    \/ Deliver(Remote)
    \/ ReceiveTick(Local)
    \/ ReceiveTick(Remote)
    \/ HandlerSettles(Remote)

\* the steps that are not up to a caller: a scheduled tick runs, the
\* transport delivers a batch, the work of a handler completes
Progress ==
    \/ Transmit(Local)
    \/ Transmit(Remote)
    \/ Deliver(Local)
    \/ Deliver(Remote)
    \/ ReceiveTick(Local)
    \/ ReceiveTick(Remote)
    \/ HandlerSettles(Remote)

\* while a tick is scheduled, a batch is on the transport or a handler is
\* at work, one of these steps eventually happens
SpecDuplex == Init /\ [][NextDuplex]_vars /\ WF_vars(Progress)

\* ------------------------------------------- the send side, every batch kept
\* the flush tick of m, the transport keeping the batch as it was handed over
FlushKept(m) ==
    /\ nextTick[m] # <<>>
    /\ Head(nextTick[m]) = "send"
    /\ LET S == SendAccumulated([Cur(m) EXCEPT !.nextTick = Tail(@)]) IN
       /\ Update(m, S)
       /\ wire' = [wire EXCEPT ![Peer(m)] = @ \o S.sentNow]

\* the flush tick of m with a callOnRemote made from inside protocol.send,
\* that is after the swap of line 172 and before _sendAccumulated returns
FlushWithCall(m) ==
    /\ nextTick[m] # <<>>
    /\ Head(nextTick[m]) = "send"
    /\ lastMessageId[m] < MaxCalls
    /\ LET S == SendAccumulated([Cur(m) EXCEPT !.nextTick = Tail(@)]) IN
       /\ Update(m, CallOnRemote(S, "svc.foo", "bar", Args))
       /\ wire' = [wire EXCEPT ![Peer(m)] = @ \o S.sentNow]

NextMux ==
    \/ Call(Local)
    \/ CancelCall(Local)
    \/ FlushKept(Local)
    \/ FlushWithCall(Local)

SpecMux == Init /\ [][NextMux]_vars

\* ------------------------------------------------------------------ claims
\* number of callbacks named kind waiting in a nextTick queue
Scheduled(queue, kind) == Cardinality({k \in 1..Len(queue) : queue[k] = kind})

\* C1: a flush tick finds the K >= 1 messages passed to send since the
\* previous flush and hands them to the transport in one protocol.send, in
\* call order; two back-to-back calls on a fresh manager give one batch
\* holding the requests "1" and "2".
C1_Batching ==
    [][\A m \in Mgr :
        ranNow'[m] = "send" =>
            LET K == sends[m] - flushed[m] IN
            /\ K >= 1
            /\ Len(sentNow'[m]) = 1
            /\ Len(sentNow'[m][1]) = K
            /\ \A k \in 1..K : sentNow'[m][1][k].n = flushed[m] + k
            /\ messagesToSend'[m] = <<>>
            /\ (sends[m] = 2 /\ flushed[m] = 0 /\ lastMessageId[m] = 2) =>
                  /\ sentNow'[m][1][1].msg.req = Str("1")
                  /\ sentNow'[m][1][2].msg.req = Str("2")]_vars

C1_Witness ==
    /\ sentNow[Local] # <<>>
    /\ Len(sentNow[Local][1]) = 2
    /\ flushed[Local] = 2
    /\ sentNow[Local][1][1].msg = Request("1", "svc.foo", "bar", Args)
    /\ sentNow[Local][1][2].msg = Request("2", "svc.foo", "bar", Args)

\* C2: the k-th invocation of the message callback receives the k-th message
\* that arrived, one invocation per delivery tick and none outside one; no
\* arrived message is lost, and a delivery stays scheduled while messages wait.
C2_InboundOrder ==
    /\ [][\A m \in Mgr :
            /\ ranNow'[m] = "receive" =>
                  /\ Len(dispatchedNow'[m]) = 1
                  /\ dispatchedNow'[m][1].n = dispatches[m] + 1
                  /\ dispatches'[m] = dispatches[m] + 1
            /\ ranNow'[m] # "receive" =>
                  /\ dispatchedNow'[m] = <<>>
                  /\ dispatches'[m] = dispatches[m]]_vars
    /\ [](\A m \in Mgr :
            /\ dispatches[m] + Len(messagesToReceive[m]) = arrivals[m]
            /\ \A k \in 1..Len(messagesToReceive[m]) :
                  messagesToReceive[m][k].n = dispatches[m] + k
            /\ messagesToReceive[m] # <<>> => Scheduled(nextTick[m], "receive") = 1)

\* two messages have arrived, the second queued behind the first (in the
\* same batch, or in a later one while the first was waiting: the queue is
\* the same); a delivery tick has just handed over the second, a reply, and
\* the queue is empty
C2_Witness ==
    /\ dispatches[Local] = 2
    /\ arrivals[Local] = 2
    /\ ranNow[Local] = "receive"
    /\ dispatchedNow[Local] # <<>>
    /\ dispatchedNow[Local][1].n = 2
    /\ dispatchedNow[Local][1].msg = ReplyOK("1", Num(42))
    /\ messagesToReceive[Local] = <<>>

\* C3: the i-th call issued carries the id String(i), so the ids are pairwise
\* distinct, increase in issuance order and start at "1"; every key of the
\* pending-replies map is the id of the one call it maps to.
C3_CorrelationIds ==
    \A m \in Mgr :
        /\ \A i \in 1..Len(lazy[m]) : lazy[m][i].req = String(i)
        /\ \A i, j \in 1..Len(lazy[m]) : i # j => lazy[m][i].req # lazy[m][j].req
        /\ \A k \in DOMAIN pendingRPCReplies[m] :
              /\ pendingRPCReplies[m][k] \in 1..Len(lazy[m])
              /\ lazy[m][pendingRPCReplies[m][k]].req = k

\* two calls issued with a reply dispatched in between
C3_Witness ==
    /\ Len(lazy[Local]) = 2
    /\ lazy[Local][1].state # "Pending"
    /\ lazy[Local][2].req = "2"
    /\ "2" \in DOMAIN pendingRPCReplies[Local]

\* the message callback ran in this step of m, on a reply carrying seq key
ReplyDispatched(m, key) ==
    /\ dispatchedNow'[m] # <<>>
    /\ Truthy(Get(dispatchedNow'[m][1].msg, "seq"))
    /\ ToKey(Get(dispatchedNow'[m][1].msg, "seq")) = key

\* the message callback ran in this step of m, on a reply whose seq is no
\* key of the pending-replies map
UnknownReplyDispatched(m) ==
    /\ dispatchedNow'[m] # <<>>
    /\ Truthy(Get(dispatchedNow'[m][1].msg, "seq"))
    /\ ToKey(Get(dispatchedNow'[m][1].msg, "seq")) \notin DOMAIN pendingRPCReplies[m]

\* this step of m is a callOnRemote
CallIssued(m) == Len(lazy'[m]) = Len(lazy[m]) + 1

\* C4: the manager resolves the deferred result of a call at most once, and
\* only in a step that dispatches a reply whose seq is the call's id; a
\* reply whose seq is no key of the pending-replies map resolves nothing.
C4_ExactlyOnceReply ==
    /\ [](\A m \in Mgr : \A i \in 1..Len(lazy[m]) : lazy[m][i].resolveCalls <= 1)
    /\ [][\A m \in Mgr :
            /\ \A i \in 1..Len(lazy[m]) :
                  (lazy'[m][i].state # lazy[m][i].state
                   \/ lazy'[m][i].value # lazy[m][i].value
                   \/ lazy'[m][i].resolveCalls # lazy[m][i].resolveCalls) =>
                      /\ lazy[m][i].state = "Pending"
                      /\ lazy[m][i].resolveCalls = 0
                      /\ ReplyDispatched(m, lazy[m][i].req)
            /\ UnknownReplyDispatched(m) => lazy'[m] = lazy[m]]_vars

\* call "2" was answered before call "1", then call "1" was answered
C4_Witness ==
    /\ Len(lazy[Local]) = 2
    /\ lazy[Local][1].resolveCalls = 1
    /\ lazy[Local][2].resolveCalls = 1
    /\ dispatches[Local] = 2
    /\ dispatchedNow[Local] # <<>>
    /\ dispatchedNow[Local][1].msg.seq = Str("1")

\* C5: the keys of the pending-replies map are the ids of the calls issued
\* and not yet answered: callOnRemote adds the id it issues, the dispatch of a
\* reply with that seq removes it, and no other step (a cancel request
\* included) changes whether an id is a key.
C5_OutboundLifetime ==
    /\ [](\A m \in Mgr :
            DOMAIN pendingRPCReplies[m] =
                {lazy[m][i].req : i \in {j \in 1..Len(lazy[m]) : lazy[m][j].resolveCalls = 0}})
    /\ [][\A m \in Mgr :
            /\ CallIssued(m) => Last(lazy'[m]).req \in DOMAIN pendingRPCReplies'[m]
            /\ \A key \in DOMAIN pendingRPCReplies[m] :
                  /\ ReplyDispatched(m, key) => key \notin DOMAIN pendingRPCReplies'[m]
                  /\ key \notin DOMAIN pendingRPCReplies'[m] => ReplyDispatched(m, key)
            /\ \A key \in DOMAIN pendingRPCReplies'[m] :
                  key \notin DOMAIN pendingRPCReplies[m] =>
                      CallIssued(m) /\ key = Last(lazy'[m]).req
            /\ \A i \in 1..Len(lazy[m]) :
                  lazy'[m][i].cancelRequested # lazy[m][i].cancelRequested =>
                      pendingRPCReplies'[m] = pendingRPCReplies[m]]_vars

\* call "1" was cancelled and is still in the map, call "2" was answered
C5_Witness ==
    /\ Len(lazy[Local]) = 2
    /\ lazy[Local][1].cancelRequested
    /\ lazy[Local][1].cancelsSent = 1
    /\ DOMAIN pendingRPCReplies[Local] = {"1"}
    /\ lazy[Local][2].state = "ResolvedOk"

\* C6: cancelling a pending call hands one Cancel message with the call's id
\* to the multiplexer, once however often cancel is requested, and leaves the
\* deferred result pending; a reply dispatched later still resolves it (ok
\* with the reply's value when the reply has no err field, error when its
\* err is set); a call already resolved gets no Cancel message.
C6_CancelThenReply ==
    /\ [](\A m \in Mgr : \A i \in 1..Len(lazy[m]) : lazy[m][i].cancelsSent <= 1)
    /\ [][\A m \in Mgr : \A i \in 1..Len(lazy[m]) :
            /\ lazy'[m][i].cancelsSent # lazy[m][i].cancelsSent =>
                  /\ lazy[m][i].state = "Pending"
                  /\ lazy'[m][i].state = "Pending"
                  /\ lazy[m][i].cancelsSent = 0
                  /\ sends'[m] = sends[m] + 1
                  /\ Last(messagesToSend'[m]) = Tag(Cancel(lazy[m][i].req), sends'[m])
            /\ (lazy[m][i].cancelRequested /\ lazy[m][i].state = "Pending"
                /\ ReplyDispatched(m, lazy[m][i].req)) =>
                  LET msg == dispatchedNow'[m][1].msg IN
                  /\ lazy'[m][i].state \in {"ResolvedOk", "ResolvedError"}
                  /\ "err" \notin DOMAIN msg =>
                        /\ lazy'[m][i].state = "ResolvedOk"
                        /\ lazy'[m][i].value = Get(msg, "res")
                  /\ Truthy(Get(msg, "err")) => lazy'[m][i].state = "ResolvedError"
            /\ lazy[m][i].state # "Pending" =>
                  lazy'[m][i].cancelsSent = lazy[m][i].cancelsSent]_vars

\* call "1" was cancelled, its Cancel message went out, and the reply that
\* came afterwards resolved it with the reply's value
C6_Witness ==
    /\ Len(lazy[Local]) >= 1
    /\ lazy[Local][1].cancelRequested
    /\ lazy[Local][1].cancelsSent = 1
    /\ lazy[Local][1].state = "ResolvedOk"
    /\ lazy[Local][1].value = Num(42)
    /\ dispatchedNow[Local] # <<>>

\* C7: a reply that matches a pending call and has an err field resolves
\* the call as a failure, whatever the payload: the rebuilt error for a
\* marked payload, the raw payload (null included) otherwise.
C7_RemoteFailure ==
    [][\A m \in Mgr : \A i \in 1..Len(lazy[m]) :
        (/\ lazy[m][i].req \in DOMAIN pendingRPCReplies[m]
         /\ ReplyDispatched(m, lazy[m][i].req)
         /\ "err" \in DOMAIN dispatchedNow'[m][1].msg) =>
            /\ lazy'[m][i].state = "ResolvedError"
            /\ lazy'[m][i].value = ReplyError(dispatchedNow'[m][1].msg.err)]_vars

\* C8: the dispatch of a reply whose seq is no key of the pending-replies
\* map raises no error and changes nothing: no deferred result, no message
\* sent, both maps, the id counter and the handler as before.
C8_UnknownReply ==
    [][\A m \in Mgr :
        UnknownReplyDispatched(m) =>
            /\ ~dispatchedNow'[m][1].threw
            /\ lazy'[m] = lazy[m]
            /\ sends'[m] = sends[m]
            /\ messagesToSend'[m] = messagesToSend[m]
            /\ pendingRPCReplies'[m] = pendingRPCReplies[m]
            /\ invokedHandlers'[m] = invokedHandlers[m]
            /\ promises'[m] = promises[m]
            /\ lastMessageId'[m] = lastMessageId[m]
            /\ bigHandler'[m] = bigHandler[m]]_vars

\* a reply for the id "2", which was never issued, has just been dispatched
\* while call "1" is pending and a request is in flight
C8_Witness ==
    /\ dispatchedNow[Local] # <<>>
    /\ dispatchedNow[Local][1].msg = ReplyOK("2", Num(42))
    /\ ~dispatchedNow[Local][1].threw
    /\ lastMessageId[Local] = 1
    /\ DOMAIN pendingRPCReplies[Local] = {"1"}
    /\ DOMAIN invokedHandlers[Local] = {"1"}

\* the message callback ran in this step of m, on a message with a req field
\* that reached the request branch
RequestDispatched(m) ==
    /\ dispatchedNow'[m] # <<>>
    /\ "req" \in DOMAIN dispatchedNow'[m][1].msg
    /\ ~Truthy(Get(dispatchedNow'[m][1].msg, "seq"))
    /\ ~Truthy(Get(dispatchedNow'[m][1].msg, "cancel"))
    /\ ~Truthy(Get(dispatchedNow'[m][1].msg, "err"))

\* the handler promise i of m fails in this step: by a throw of the handler
\* during the dispatch, or by the rejection of its pending result
FailsNow(m, i) ==
    /\ promises'[m][i].state = "error"
    /\ i > Len(promises[m]) \/ promises[m][i].state = "pending"

\* C9: a request dispatched with a handler registered never lets an error
\* out of the dispatch; when the handler fails, by a throw or by a rejected
\* result, one error reply with the request's id as seq is passed to the
\* multiplexer and the invocation's entry is removed; no invocation ever
\* gets a second reply.
C9_HandlerFailure ==
    /\ [](\A m \in Mgr : \A i \in 1..Len(promises[m]) :
            /\ Len(promises[m][i].replies) <= 1
            /\ promises[m][i].state # "pending" => Len(promises[m][i].replies) = 1)
    /\ [][\A m \in Mgr :
            /\ (RequestDispatched(m) /\ bigHandler[m] # NoHandler) =>
                  /\ ~dispatchedNow'[m][1].threw
                  /\ Len(promises'[m]) = Len(promises[m]) + 1
                  /\ Last(promises'[m]).key = ToKey(dispatchedNow'[m][1].msg.req)
            /\ \A i \in 1..Len(promises'[m]) :
                  FailsNow(m, i) =>
                      LET p == promises'[m][i] IN
                      /\ Len(p.replies) = 1
                      /\ "err" \in DOMAIN p.replies[1]
                      /\ p.replies[1].seq = Str(p.key)
                      /\ sends'[m] = sends[m] + 1
                      /\ Last(messagesToSend'[m]) = Tag(p.replies[1], sends'[m])
                      /\ p.key \notin DOMAIN invokedHandlers'[m]
                      /\ dispatchedNow'[m] # <<>> => ~dispatchedNow'[m][1].threw]_vars

\* one request failed by a throw of the handler, another by the rejection of
\* its pending result; each got its error reply
C9_Witness ==
    /\ Len(promises[Local]) = 2
    /\ promises[Local][1].state = "error"
    /\ promises[Local][2].state = "error"
    /\ Len(promises[Local][1].replies) = 1
    /\ Len(promises[Local][2].replies) = 1
    /\ dispatchedNow[Local] = <<>>
    /\ invokedHandlers[Local] = Empty

\* a request by the wire format's rule: no seq, no cancel, and not an err
\* without req and rpcId
IsRequestOnWire(msg) ==
    /\ "seq" \notin DOMAIN msg
    /\ "cancel" \notin DOMAIN msg
    /\ ~("err" \in DOMAIN msg /\ "req" \notin DOMAIN msg /\ "rpcId" \notin DOMAIN msg)

\* C10: the dispatch of a message raises a fatal error exactly when the
\* message is a request and no handler is registered, and then registers no
\* invocation and sends nothing; a request dispatched with a handler
\* registered goes to the handler registered last.
C10_LazyFatal ==
    [][\A m \in Mgr :
        dispatchedNow'[m] # <<>> =>
            LET d == dispatchedNow'[m][1] IN
            /\ d.threw <=> (IsRequestOnWire(d.msg) /\ bigHandler[m] = NoHandler)
            /\ d.threw =>
                  /\ promises'[m] = promises[m]
                  /\ invokedHandlers'[m] = invokedHandlers[m]
                  /\ sends'[m] = sends[m]
            /\ (IsRequestOnWire(d.msg) /\ bigHandler[m] # NoHandler) =>
                  /\ Len(promises'[m]) = Len(promises[m]) + 1
                  /\ Last(promises'[m]).handler = bigHandler[m]]_vars

\* the handler promises of m that have not settled
InFlight(m) == {i \in 1..Len(promises[m]) : promises[m][i].state = "pending"}

\* the message callback ran in this step of m, on a message that reached the
\* cancel branch
CancelDispatched(m) ==
    /\ dispatchedNow'[m] # <<>>
    /\ ~Truthy(Get(dispatchedNow'[m][1].msg, "seq"))
    /\ Truthy(Get(dispatchedNow'[m][1].msg, "cancel"))

\* the handler promise i of m completes in this step: created by a dispatch
\* and settled at once, or pending before and settled now
CompletesNow(m, i) ==
    /\ promises'[m][i].state # "pending"
    /\ i > Len(promises[m]) \/ promises[m][i].state = "pending"

\* C11: with request ids distinct among the peer's unanswered requests, the
\* keys of the in-flight map are the ids of the requests dispatched to the
\* handler whose work has not completed, each mapped to its own invocation;
\* an entry leaves the map exactly in the step its invocation completes; a
\* Cancel message invokes cancel on the in-flight invocation and the entry
\* stays unless that cancel completes the invocation in the same step; the
\* map is empty once every invocation has completed.
C11_InboundLifetime ==
    /\ [](\A m \in Mgr :
            /\ DOMAIN invokedHandlers[m] = {promises[m][i].key : i \in InFlight(m)}
            /\ \A i \in InFlight(m) : invokedHandlers[m][promises[m][i].key] = i
            /\ InFlight(m) = {} => invokedHandlers[m] = Empty)
    /\ [][\A m \in Mgr :
            /\ CancelDispatched(m) =>
                  LET key == ToKey(dispatchedNow'[m][1].msg.cancel) IN
                  /\ key \notin DOMAIN invokedHandlers[m] =>
                        invokedHandlers'[m] = invokedHandlers[m]
                  /\ key \in DOMAIN invokedHandlers[m] =>
                        LET i == invokedHandlers[m][key] IN
                        /\ promises'[m][i].cancelCalls = promises[m][i].cancelCalls + 1
                        /\ \/ invokedHandlers'[m] = invokedHandlers[m]
                           \/ /\ CompletesNow(m, i)
                              /\ invokedHandlers'[m] = Remove(invokedHandlers[m], key)
            /\ (RequestDispatched(m) /\ bigHandler[m] # NoHandler) =>
                  /\ Len(promises'[m]) = Len(promises[m]) + 1
                  /\ Last(promises'[m]).state = "pending" =>
                        /\ Last(promises'[m]).key \in DOMAIN invokedHandlers'[m]
                        /\ invokedHandlers'[m][Last(promises'[m]).key] = Len(promises'[m])
            /\ \A key \in DOMAIN invokedHandlers[m] :
                  key \notin DOMAIN invokedHandlers'[m] <=>
                      CompletesNow(m, invokedHandlers[m][key])
            /\ \A i \in 1..Len(promises[m]) :
                  promises[m][i].state # "pending" => promises'[m][i] = promises[m][i]]_vars

\* request "1" was cancelled while in flight and stayed in the map until it
\* completed; request "2" is still in flight
C11_Witness ==
    /\ Len(promises[Local]) = 2
    /\ promises[Local][1].key = "1"
    /\ promises[Local][1].cancelCalls = 1
    /\ promises[Local][1].state = "error"
    /\ DOMAIN invokedHandlers[Local] = {"2"}
    /\ ranNow[Local] = "none"
    /\ dispatchedNow[Local] = <<>>

\* the handler promises of m that have completed
Completed(m) == {i \in 1..Len(promises[m]) : promises[m][i].state # "pending"}

\* C12: on a manager that issues no calls, the messages handed to the
\* multiplexer are the replies of the completed invocations, one each: a
\* step sends at most one message, it sends one exactly when one invocation
\* completes, and that message is the reply (ok for a success, error for a
\* failure) whose seq is the request's id, whatever Cancel messages are
\* dispatched before, during or after; the dispatch of a Cancel message
\* whose id is no key of the in-flight map raises nothing and changes nothing.
C12_OneReply ==
    /\ [](\A m \in Mgr :
            lastMessageId[m] = 0 =>
                /\ sends[m] = Cardinality(Completed(m))
                /\ \A i \in 1..Len(promises[m]) :
                      Len(promises[m][i].replies) = IF i \in Completed(m) THEN 1 ELSE 0)
    /\ [][\A m \in Mgr :
            /\ lastMessageId[m] = 0 =>
                  /\ sends'[m] \in {sends[m], sends[m] + 1}
                  /\ \A i \in 1..Len(promises'[m]) :
                        CompletesNow(m, i) =>
                            LET p == promises'[m][i] IN
                            /\ sends'[m] = sends[m] + 1
                            /\ Last(messagesToSend'[m]) = Tag(p.replies[1], sends'[m])
                            /\ p.replies[1].seq = Str(p.key)
                            /\ "err" \in DOMAIN p.replies[1] <=> p.state = "error"
            /\ (CancelDispatched(m)
                /\ ToKey(dispatchedNow'[m][1].msg.cancel) \notin DOMAIN invokedHandlers[m]) =>
                  /\ ~dispatchedNow'[m][1].threw
                  /\ promises'[m] = promises[m]
                  /\ invokedHandlers'[m] = invokedHandlers[m]
                  /\ sends'[m] = sends[m]
                  /\ messagesToSend'[m] = messagesToSend[m]
                  /\ pendingRPCReplies'[m] = pendingRPCReplies[m]
                  /\ lazy'[m] = lazy[m]
                  /\ lastMessageId'[m] = lastMessageId[m]
                  /\ bigHandler'[m] = bigHandler[m]]_vars

\* four messages were dispatched for one request: Cancel messages found no
\* invocation twice and an in-flight one once, the request completed
\* successfully afterwards and got its one reply, and the last Cancel
\* message came after the completion
C12_Witness ==
    /\ dispatches[Local] = 4
    /\ Len(promises[Local]) = 1
    /\ promises[Local][1].cancelCalls = 1
    /\ promises[Local][1].state = "ok"
    /\ promises[Local][1].replies = <<ReplyOK("1", Num(42))>>
    /\ sends[Local] = 1
    /\ dispatchedNow[Local] # <<>>
    /\ dispatchedNow[Local][1].msg = Cancel("1")
    /\ ~dispatchedNow[Local][1].threw

\* the kind of a decoded message by the wire format's rule: field presence
WireKind(msg) ==
    IF "seq" \in DOMAIN msg THEN "reply"
    ELSE IF "cancel" \in DOMAIN msg THEN "cancel"
    ELSE IF "err" \in DOMAIN msg /\ "req" \notin DOMAIN msg /\ "rpcId" \notin DOMAIN msg
         THEN "error"
    ELSE "request"

\* C13: the dispatch of any decoded message takes the branch of its kind by
\* field presence, whatever values the present fields hold; the dispatch of
\* a bare error notification raises nothing, invokes no handler and sends
\* nothing.
C13_Classification ==
    [][\A m \in Mgr :
        dispatchedNow'[m] # <<>> =>
            LET d == dispatchedNow'[m][1] IN
            /\ d.branch = WireKind(d.msg)
            /\ WireKind(d.msg) = "error" =>
                  /\ ~d.threw
                  /\ promises'[m] = promises[m]
                  /\ invokedHandlers'[m] = invokedHandlers[m]
                  /\ sends'[m] = sends[m]
                  /\ messagesToSend'[m] = messagesToSend[m]]_vars

\* the invocations at the callee of the request the caller issued as call i
InvocationsOf(i) ==
    {j \in 1..Len(promises[Remote]) : promises[Remote][j].key = lazy[Local][i].req}

\* the values JSON keeps: null, booleans, strings, finite numbers, and the
\* arrays and objects made of these
RECURSIVE Preserved(_)
Preserved(v) ==
    CASE v.t \in {"null", "boolean", "string"} -> TRUE
      [] v.t = "number" -> "inf" \notin DOMAIN v
      [] v.t = "array" -> \A k \in 1..Len(v.items) : Preserved(v.items[k])
      [] v.t = "object" -> \A k \in DOMAIN v.fields : Preserved(v.fields[k])
      [] OTHER -> FALSE

\* C14, as amended: between two managers, the request of a call is
\* dispatched to the handler at most once; when the handler returned v, the
\* reply is what the receiver decodes from the text replyOK writes: it has no
\* res field exactly when v is undefined, and res = v when v is a value JSON
\* keeps; the caller's deferred result, once resolved, is a success, with
\* value v when v is undefined or a value JSON keeps, and otherwise with
\* what the serializer makes of v (parse of stringify of v).
C14_RoundTripPreserved ==
    \A i \in 1..Len(lazy[Local]) :
        /\ Cardinality(InvocationsOf(i)) <= 1
        /\ lazy[Local][i].resolveCalls > 0 =>
              \E j \in InvocationsOf(i) : promises[Remote][j].state # "pending"
        /\ \A j \in InvocationsOf(i) :
              LET p == promises[Remote][j] IN
              p.state = "ok" =>
                  /\ p.replies = <<Decode(ReplyOKText(p.key, p.value))>>
                  /\ "res" \in DOMAIN p.replies[1] <=> p.value # Undef
                  /\ Preserved(p.value) => p.replies[1].res = p.value
                  /\ lazy[Local][i].state # "Pending" =>
                        /\ lazy[Local][i].state = "ResolvedOk"
                        /\ p.value = Undef \/ Preserved(p.value) =>
                              lazy[Local][i].value = p.value
                        /\ p.value # Undef =>
                              lazy[Local][i].value = Parse(Json(p.value))

\* call "1" returned an object that holds an array, a negative fraction and
\* a string with a line feed, call "2" returned nothing; the caller has
\* resolved the first with that object and the second with undefined
C14_Witness ==
    /\ Len(lazy[Local]) = 2
    /\ Len(promises[Remote]) = 2
    /\ promises[Remote][1].value =
          Obj(<<"a", "b">>, ("a" :> Arr(<<Num(1), Dec(TRUE, "25", 0), Null>>)) @@ ("b" :> Str("x\ny")))
    /\ promises[Remote][2].value = Undef
    /\ promises[Remote][1].state = "ok"
    /\ promises[Remote][2].state = "ok"
    /\ lazy[Local][1].state = "ResolvedOk"
    /\ lazy[Local][1].value = promises[Remote][1].value
    /\ lazy[Local][2].state = "ResolvedOk"
    /\ lazy[Local][2].value = Undef

\* C14, as stated: between two managers, the request of a call is
\* dispatched to the handler at most once; for every value v the handler
\* returned, the ok reply built for it has no res field for undefined and
\* res = v otherwise, and the caller's deferred result, once resolved, is a
\* success with value v.
C14_RoundTrip ==
    \A i \in 1..Len(lazy[Local]) :
        /\ Cardinality(InvocationsOf(i)) <= 1
        /\ lazy[Local][i].resolveCalls > 0 =>
              \E j \in InvocationsOf(i) : promises[Remote][j].state # "pending"
        /\ \A j \in InvocationsOf(i) :
              LET p == promises[Remote][j] IN
              p.state = "ok" =>
                  /\ p.replies = <<ReplyOK(p.key, p.value)>>
                  /\ "res" \in DOMAIN p.replies[1] <=> p.value # Undef
                  /\ "res" \in DOMAIN p.replies[1] => p.replies[1].res = p.value
                  /\ lazy[Local][i].state # "Pending" =>
                        /\ lazy[Local][i].state = "ResolvedOk"
                        /\ lazy[Local][i].value = p.value

\* call i of the caller has its terminal outcome and has left the map
Answered(i) ==
    /\ Len(lazy[Local]) >= i
    /\ lazy[Local][i].state \in {"ResolvedOk", "ResolvedError"}
    /\ lazy[Local][i].resolveCalls = 1
    /\ lazy[Local][i].req \notin DOMAIN pendingRPCReplies[Local]

\* C15: between two managers with the callee's handler registered, every
\* scheduled tick eventually run, every batch eventually delivered and every
\* handler's work eventually completed, each call issued is eventually
\* resolved (ok or error) and leaves the pending-replies map; it is resolved
\* at most once, and only in a step that dispatches a reply with its id:
\* until then it stays pending and in the map; at neither end does a
\* message wait in a buffer or queue without a tick scheduled for it.
C15_Completion ==
    /\ \A i \in 1..MaxCalls : (Len(lazy[Local]) >= i) ~> Answered(i)
    /\ [](\A m \in Mgr :
            /\ messagesToSend[m] # <<>> => Scheduled(nextTick[m], "send") >= 1
            /\ messagesToReceive[m] # <<>> => Scheduled(nextTick[m], "receive") >= 1)
    /\ [](\A i \in 1..Len(lazy[Local]) :
            /\ lazy[Local][i].resolveCalls <= 1
            /\ lazy[Local][i].resolveCalls = 0 =>
                  /\ lazy[Local][i].state = "Pending"
                  /\ lazy[Local][i].req \in DOMAIN pendingRPCReplies[Local])
    /\ [][\A i \in 1..Len(lazy[Local]) :
            lazy'[Local][i].resolveCalls # lazy[Local][i].resolveCalls =>
                ReplyDispatched(Local, lazy[Local][i].req)]_vars

\* the request of the first call named a capability id holding a quote: its
\* text did not parse at the callee, whose dispatch threw and invoked no
\* handler; nothing is scheduled, queued or on the transport, and the call
\* is still pending
C15_Witness ==
    /\ Len(lazy[Local]) = 1
    /\ lazy[Local][1].state = "Pending"
    /\ lazy[Local][1].req \in DOMAIN pendingRPCReplies[Local]
    /\ dispatchedNow[Remote] # <<>>
    /\ dispatchedNow[Remote][1].msg = Request("1", "svc\"foo", "bar", Args)
    /\ dispatchedNow[Remote][1].msg = Thrown("SyntaxError")
    /\ dispatchedNow[Remote][1].threw
    /\ promises[Remote] = <<>>
    /\ wire = [m \in Mgr |-> <<>>]
    /\ nextTick = [m \in Mgr |-> <<>>]
    /\ messagesToSend = [m \in Mgr |-> <<>>]
    /\ messagesToReceive = [m \in Mgr |-> <<>>]

\* the batches of a sequence of batches, joined in order
RECURSIVE Flatten(_)
Flatten(batches) ==
    IF batches = <<>> THEN <<>> ELSE Head(batches) \o Flatten(Tail(batches))

\* every message handed to the transport by the caller, then its send buffer
Outbound == Flatten(wire[Remote]) \o messagesToSend[Local]

\* C16: with every batch handed to the transport kept, the batches joined
\* in order and followed by the send buffer are the messages passed to send
\* in call order, each once: the k-th element is the message of the k-th
\* send call; a flush adds one batch and a send adds its message at the end
\* of the buffer, also when the send happens while the flush is running.
C16_StreamIntegrity ==
    /\ [](/\ Len(Outbound) = sends[Local]
          /\ \A k \in 1..Len(Outbound) : Outbound[k].n = k
          /\ Len(Flatten(wire[Remote])) = flushed[Local])
    /\ [][/\ SubSeq(Outbound', 1, Len(Outbound)) = Outbound
          /\ ranNow'[Local] = "send" =>
                /\ Len(wire'[Remote]) = Len(wire[Remote]) + 1
                /\ Last(wire'[Remote]) = messagesToSend[Local]
          /\ ranNow'[Local] # "send" => wire' = wire]_vars

\* two batches went out, the second with two messages; a call made while
\* the first flush was running is among them and a cancel is still buffered
C16_Witness ==
    /\ Len(wire[Remote]) = 2
    /\ Len(wire[Remote][1]) = 1
    /\ Len(wire[Remote][2]) = 2
    /\ wire[Remote][2][1].msg = Request("2", "svc.foo", "bar", Args)
    /\ Len(messagesToSend[Local]) = 1
    /\ messagesToSend[Local][1].msg = Cancel("2")
    /\ sends[Local] = 4

\* C17: between steps a flush is scheduled exactly when the send buffer is
\* non-empty, and never twice; a flush tick hands over a non-empty batch and
\* leaves a flush scheduled exactly when a send was made while it ran.
C17_SendScheduling ==
    /\ [](\A m \in Mgr :
            Scheduled(nextTick[m], "send") = IF messagesToSend[m] # <<>> THEN 1 ELSE 0)
    /\ [][\A m \in Mgr :
            ranNow'[m] = "send" =>
                /\ messagesToSend[m] # <<>>
                /\ \A k \in 1..Len(sentNow'[m]) : sentNow'[m][k] # <<>>]_vars

\* a flush has just run with a call made during it: the new request is
\* buffered and one flush is scheduled for it
C17_Witness ==
    /\ ranNow[Local] = "send"
    /\ Len(messagesToSend[Local]) = 1
    /\ Scheduled(nextTick[Local], "send") = 1
    /\ flushed[Local] = 2

\* C18: with every arriving batch non-empty, between steps a delivery is
\* scheduled exactly when the receive queue is non-empty, and never twice; a
\* delivery tick finds a message in the queue and hands the callback that
\* message, one that arrived.
C18_ReceiveScheduling ==
    /\ [](\A m \in Mgr :
            Scheduled(nextTick[m], "receive") = IF messagesToReceive[m] # <<>> THEN 1 ELSE 0)
    /\ [][\A m \in Mgr :
            ranNow'[m] = "receive" =>
                /\ messagesToReceive[m] # <<>>
                /\ Len(dispatchedNow'[m]) = 1
                /\ dispatchedNow'[m][1].msg = Head(messagesToReceive[m]).msg
                /\ dispatchedNow'[m][1].msg \in InboundMessages
                /\ dispatchedNow'[m][1].n \in 1..arrivals[m]]_vars

\* a batch arrived while a message was queued, the first message has been
\* delivered and one delivery is scheduled for the one left
C18_Witness ==
    /\ arrivals[Local] = 2
    /\ dispatches[Local] = 1
    /\ ranNow[Local] = "receive"
    /\ Len(messagesToReceive[Local]) = 1
    /\ Scheduled(nextTick[Local], "receive") = 1

\* C19: when the dispatch of a message raises an error, the message is off
\* the queue, the messages behind it are still queued in arrival order with
\* one delivery scheduled for them, so that the next delivery tick hands
\* over the next message arrived; the calls pending, the invocations in
\* flight, the id counter and the send buffer are as before.
C19_ThrowKeepsQueue ==
    [][\A m \in Mgr :
        (dispatchedNow'[m] # <<>> /\ dispatchedNow'[m][1].threw) =>
            /\ messagesToReceive'[m] = Tail(messagesToReceive[m])
            /\ messagesToReceive'[m] # <<>> =>
                  /\ Scheduled(nextTick'[m], "receive") = 1
                  /\ Head(messagesToReceive'[m]).n = dispatchedNow'[m][1].n + 1
            /\ pendingRPCReplies'[m] = pendingRPCReplies[m]
            /\ lazy'[m] = lazy[m]
            /\ invokedHandlers'[m] = invokedHandlers[m]
            /\ promises'[m] = promises[m]
            /\ lastMessageId'[m] = lastMessageId[m]
            /\ messagesToSend'[m] = messagesToSend[m]]_vars

\* a request dispatched with no handler registered has just raised its
\* error while call "1" is pending and the reply for it is queued behind
C19_Witness ==
    /\ dispatchedNow[Local] # <<>>
    /\ dispatchedNow[Local][1].threw
    /\ dispatchedNow[Local][1].msg = Request("1", "svc.foo", "bar", Args)
    /\ Len(messagesToReceive[Local]) = 1
    /\ messagesToReceive[Local][1].msg = ReplyOK("1", Num(42))
    /\ Scheduled(nextTick[Local], "receive") = 1
    /\ DOMAIN pendingRPCReplies[Local] = {"1"}
    /\ lazy[Local][1].state = "Pending"

\* C20: the dispatch of a request or of a Cancel message leaves the
\* pending-replies map, every deferred result and the id counter as they
\* were; the dispatch of a reply and callOnRemote leave the in-flight map
\* and every invocation as they were; this with the id "1" in use on both
\* sides.
C20_IdSpaces ==
    [][\A m \in Mgr :
        /\ (dispatchedNow'[m] # <<>>
            /\ dispatchedNow'[m][1].branch \in {"request", "cancel"}) =>
              /\ pendingRPCReplies'[m] = pendingRPCReplies[m]
              /\ lazy'[m] = lazy[m]
              /\ lastMessageId'[m] = lastMessageId[m]
        /\ ((dispatchedNow'[m] # <<>> /\ dispatchedNow'[m][1].branch = "reply")
            \/ CallIssued(m)) =>
              /\ invokedHandlers'[m] = invokedHandlers[m]
              /\ promises'[m] = promises[m]]_vars

\* call "1" is pending and request "1" is in flight; the Cancel message for
\* "1" has just cancelled and completed the invocation, and the call is
\* still pending
C20_Witness ==
    /\ dispatchedNow[Local] # <<>>
    /\ dispatchedNow[Local][1].msg = Cancel("1")
    /\ DOMAIN pendingRPCReplies[Local] = {"1"}
    /\ lazy[Local][1].state = "Pending"
    /\ Len(promises[Local]) = 1
    /\ promises[Local][1].key = "1"
    /\ promises[Local][1].cancelCalls = 1
    /\ promises[Local][1].state = "error"
    /\ invokedHandlers[Local] = Empty

====
